---------------------------- MODULE Spec2Model ----------------------------
(***************************************************************************)
(* Model of src/simulators/matrix_product_state/svd.cpp (qiskit-aer).      *)
(*                                                                         *)
(* Parts of the file are modelled, each with its own specification:        *)
(*   Spec        csvd_wrapper, qiskit_csvd_wrapper, lapack_csvd_wrapper    *)
(*               (back-end selection and the rescale-and-retry loop);      *)
(*   SpecTrunc   num_of_SV and reduce_zeros (truncation, renormalization); *)
(*   SpecKernel  the tail of csvd (sign sweep and selection sort);         *)
(*   SpecLoop    the loop over k of csvd with its while (true) loop step   *)
(*               by step (deflation search, cancellation, chase);          *)
(*   SpecGpu     cutensor_csvd_wrapper, statement by statement (the        *)
(*               resources it acquires and releases).                      *)
(*                                                                         *)
(* Reals.  A double is modelled on a grid.  In the retry loop a value is a *)
(* pair [m, e] standing for m * mul_factor^e, so that a multiplication or  *)
(* a division by mul_factor moves e.  In reduce_zeros an entry of S is     *)
(* kept as its squared magnitude std::norm(S[i]), a fraction num/den of    *)
(* grid units with ONE units = 1.0; the constants keep their order         *)
(* 0 < CHOP_THRESHOLD < THRESHOLD < 1.0.  In csvd an entry of S is a       *)
(* signed integer of grid units with -1.0 < -1e-13 < 0.                    *)
(* Vectors are functions on 0..size-1, indexed as in the source.           *)
(***************************************************************************)
EXTENDS Integers, Sequences, FiniteSets

VARIABLES
  \* ---- csvd_wrapper / qiskit_csvd_wrapper / lapack_csvd_wrapper ----
  cuda,            \* the build defines AER_THRUST_CUDA
  pc,              \* position of the current csvd_wrapper call
  lapack,          \* csvd_wrapper's argument
  todo,            \* back-end calls of csvd_wrapper's body still to be made
  invoked,         \* back-ends invoked so far by the current call
  A,               \* the caller's matrix (argument A, updated in place)
  copied_A,        \* qiskit_csvd_wrapper's local
  times,           \* qiskit_csvd_wrapper's local
  current_status,  \* qiskit_csvd_wrapper's local
  S,               \* the caller's vector S (filled in place)
  A0,              \* history: A as the caller passed it
  S0,              \* history: S as the caller passed it
  attempt_A,       \* history: the matrix handed to the latest csvd call
  attempt_S,       \* history: S as the latest csvd call left it
  kernel_calls,    \* history: csvd calls made by the current call
  \* ---- reduce_zeros ----
  rz_pc,               \* "ready", or "returned" after a call of reduce_zeros
  rz_calls,            \* calls of reduce_zeros made so far
  rz_U,                \* argument U: its shape [rows, cols]
  rz_S,                \* argument S: numerators of std::norm(S[i])
  rz_den,              \* the denominator the entries of rz_S share
  rz_V,                \* argument V: its shape [rows, cols]
  max_bond_dimension,  \* argument of the latest call
  truncation_threshold,\* argument of the latest call, in grid units
  mps_lapack,          \* argument of the latest call
  SV_num,              \* local of the latest call
  new_SV_num,          \* local of the latest call, at its return
  discarded_value,     \* value returned by the latest call (over den_before)
  oob_reads,           \* history: reads of S[i] with i >= S.size() in the call
  U_before,            \* history: U when the latest call began
  S_before,            \* history: S when the latest call began
  den_before,          \* history: rz_den when the latest call began
  V_before,            \* history: V when the latest call began
  \* ---- csvd ----
  csvd_pc,      \* position in csvd: "chase" (top of the while loop),
                \* "cancel", "test", "rotate", "sign", "sort" or "done"
  csvd_n,       \* local n: the number of singular values
  csvd_S,       \* argument S, in grid units
  csvd_k,       \* local k of the loop over k = n - 1 down to 0
  csvd_w,       \* local w
  csvd_status,  \* the status returned, once csvd_pc = "done"
  csvd_Vneg,    \* history: the columns of V the latest sign test negated
  \* ---- csvd, inside the while (true) loop for index k ----
  csvd_t,       \* local t, in grid units
  csvd_eps,     \* local eps, in grid units
  csvd_l,       \* local l
  csvd_oob,     \* history: S or t was read at an index outside 0..n-1
  \* ---- cutensor_csvd_wrapper ----
  gpu_pc,               \* "idle", "running" or "returned"
  gpu_i,                \* index in GpuOps of the next statement
  gpu_held,             \* resources acquired and not yet released
  gpu_failed,           \* the call returned from HANDLE_ERROR / HANDLE_CUDA_ERROR
  deviceWorkspaceSize,  \* local (0 or 1: only its sign is read)
  hostWorkspaceSize     \* local (0 or 1: only its sign is read)

svdVars == <<cuda, pc, lapack, todo, invoked, A, copied_A, times,
             current_status, S, A0, S0, attempt_A, attempt_S, kernel_calls>>

rzVars == <<rz_pc, rz_calls, rz_U, rz_S, rz_den, rz_V, max_bond_dimension,
            truncation_threshold, mps_lapack, SV_num, new_SV_num,
            discarded_value, oob_reads, U_before, S_before, den_before,
            V_before>>

csvdVars == <<csvd_pc, csvd_n, csvd_S, csvd_k, csvd_w, csvd_status,
              csvd_Vneg>>

loopVars == <<csvd_t, csvd_eps, csvd_l, csvd_oob>>

gpuVars == <<gpu_pc, gpu_i, gpu_held, gpu_failed, deviceWorkspaceSize,
             hostWorkspaceSize>>

vars == <<svdVars, rzVars, csvdVars, loopVars, gpuVars>>

-----------------------------------------------------------------------------
(* Bounds of the model *)

\* largest size of S in a csvd_wrapper call
MaxN == 2
\* largest mantissa of an entry of S
MaxMant == 2
\* number of distinct caller matrices
MaxMat == 2
\* largest number of rows or columns of the matrix given to reduce_zeros' SVD
MaxDim == 3
\* largest std::norm(S[i]) of an SVD result, in grid units
MaxNorm == 3
\* largest truncation_threshold, in grid units
MaxBudget == 3
\* calls of reduce_zeros on one triple (U, S, V)
MaxCalls == 1
\* largest n in csvd
MaxKn == 2
\* largest magnitude of an entry of S in csvd, in grid units
MaxVal == 2

-----------------------------------------------------------------------------
(* Program constants *)

NUM_SVD_TRIES == 15

\* 1.0, in grid units
ONE == 6
\* THRESHOLD = 1e-9, on the grid
THRESHOLD == 2
\* CHOP_THRESHOLD (svd.hpp), on the grid
CHOP_THRESHOLD == 1
\* 1e-13 of the test w < -1e-13, in the grid units of csvd
SIGN_TOL == 1
\* g = -1.0 of the sort, in the grid units of csvd
MINUS_ONE == -3

SUCCESS == "SUCCESS"
FAILURE == "FAILURE"

-----------------------------------------------------------------------------
(* Values *)

size(v) == Cardinality(DOMAIN v)

\* a matrix: the caller's matrix number `id` times mul_factor^e; intact is
\* FALSE once csvd has overwritten it with its Householder vectors
Matrix(id, e) == [id |-> id, e |-> e, intact |-> TRUE]

\* vectors of n entries m * mul_factor^0, as a csvd call can leave S
KernelVectors(n) == [0..(n - 1) -> [m : 1..MaxMant, e : {0}]]

NoVector == [i \in {} |-> 0]

-----------------------------------------------------------------------------
(* csvd_wrapper *)

\* the back-end calls left in csvd_wrapper's body by the preprocessor
BadDispatched(c, l) ==
  IF l THEN (IF c THEN <<"cutensor">> ELSE <<>>) \o
            (IF ~c THEN <<"lapack">> ELSE <<>>)
       ELSE <<"qiskit">>

Dispatched(c, l) ==
  IF l THEN (IF c THEN <<"cutensor">> ELSE <<>>) \o
            (IF ~c THEN <<"lapack">> ELSE <<>>)
       ELSE (IF c THEN <<"cutensor">> ELSE <<>>) \o
            (IF ~c THEN <<"qiskit">> ELSE <<>>)

csvd_wrapper(id, n, l) ==
  /\ pc \in {"idle", "returned", "thrown"}
  /\ pc' = "body"
  /\ lapack' = l
  /\ A' = Matrix(id, 0)
  /\ A0' = Matrix(id, 0)
  /\ S0' = [i \in 0..(n - 1) |-> [m |-> 0, e |-> 0]]
  /\ S' = [i \in 0..(n - 1) |-> [m |-> 0, e |-> 0]]
  /\ todo' = Dispatched(cuda, l)
  /\ invoked' = <<>>
  /\ copied_A' = Matrix(0, 0)
  /\ times' = 0
  /\ current_status' = SUCCESS
  /\ attempt_A' = Matrix(0, 0)
  /\ attempt_S' = NoVector
  /\ kernel_calls' = 0
  /\ UNCHANGED cuda

\* the end of csvd_wrapper's body
csvd_wrapper_return ==
  /\ pc = "body"
  /\ todo = <<>>
  /\ pc' = "returned"
  /\ UNCHANGED <<cuda, lapack, todo, invoked, A, copied_A, times,
                 current_status, S, A0, S0, attempt_A, attempt_S, kernel_calls>>

-----------------------------------------------------------------------------
(* qiskit_csvd_wrapper *)

\* copied_A * mul_factor
Scale(M) == [M EXCEPT !.e = @ + 1]

\* S[k] /= pow(mul_factor, times), for every k
DivideAll(v, t) == [k \in DOMAIN v |-> [v[k] EXCEPT !.e = @ - t]]

\* the condition of the retry loop
LoopCond(t, st) == t <= NUM_SVD_TRIES /\ st = FAILURE

\* the test that guards the throw
ThrowCond(t) == t = NUM_SVD_TRIES

\* one call csvd(A, U, S, V) with A = M: it overwrites A, writes S and
\* returns a status; the numerical outcome is any status and any vector
csvd_call(M, st, s) ==
  /\ attempt_A' = M
  /\ A' = [M EXCEPT !.intact = FALSE]
  /\ attempt_S' = s
  /\ S' = s
  /\ current_status' = st
  /\ kernel_calls' = kernel_calls + 1

\* entry, first csvd call and the early return
qiskit_first(st, s) ==
  /\ pc = "body"
  /\ todo # <<>>
  /\ Head(todo) = "qiskit"
  /\ invoked' = Append(invoked, "qiskit")
  /\ copied_A' = A
  /\ times' = 0
  /\ csvd_call(A, st, s)
  /\ IF st = SUCCESS
       THEN pc' = "body" /\ todo' = Tail(todo)
       ELSE pc' = "qiskit_loop" /\ todo' = todo
  /\ UNCHANGED <<cuda, lapack, A0, S0>>

\* one iteration of the retry loop
qiskit_retry(st, s) ==
  /\ pc = "qiskit_loop"
  /\ LoopCond(times, current_status)
  /\ times' = times + 1
  /\ copied_A' = Scale(copied_A)
  /\ csvd_call(copied_A', st, s)
  /\ UNCHANGED <<cuda, pc, lapack, todo, invoked, A0, S0>>

\* after the loop: throw, or undo the scaling and return
qiskit_exit ==
  /\ pc = "qiskit_loop"
  /\ ~LoopCond(times, current_status)
  /\ IF ThrowCond(times)
       THEN pc' = "thrown" /\ S' = S /\ todo' = todo
       ELSE /\ pc' = "body"
            /\ S' = DivideAll(S, times)
            /\ todo' = Tail(todo)
  /\ UNCHANGED <<cuda, lapack, invoked, A, copied_A, times, current_status,
                 A0, S0, attempt_A, attempt_S, kernel_calls>>

-----------------------------------------------------------------------------
(* lapack_csvd_wrapper and cutensor_csvd_wrapper *)

\* zgesvd_/zgesdd_ fill S and set info; validate_SVdD_result throws on a
\* mismatch, before info is looked at
lapack_csvd_wrapper(info, valid, s) ==
  /\ pc = "body"
  /\ todo # <<>>
  /\ Head(todo) = "lapack"
  /\ invoked' = Append(invoked, "lapack")
  /\ S' = s
  /\ IF valid /\ info = 0
       THEN pc' = "body" /\ todo' = Tail(todo)
       ELSE pc' = "thrown" /\ todo' = todo
  /\ UNCHANGED <<cuda, lapack, A, copied_A, times, current_status, A0, S0,
                 attempt_A, attempt_S, kernel_calls>>

\* the GPU back-end works on its own buffers and leaves the caller's
\* U, S and V alone
cutensor_csvd_wrapper ==
  /\ pc = "body"
  /\ todo # <<>>
  /\ Head(todo) = "cutensor"
  /\ invoked' = Append(invoked, "cutensor")
  /\ pc' = "body"
  /\ todo' = Tail(todo)
  /\ UNCHANGED <<cuda, lapack, A, copied_A, times, current_status, S, A0, S0,
                 attempt_A, attempt_S, kernel_calls>>

-----------------------------------------------------------------------------
(* num_of_SV and reduce_zeros *)

RECURSIVE SumRange(_, _, _)
\* v[lo] + ... + v[hi - 1]
SumRange(v, lo, hi) == IF lo >= hi THEN 0 ELSE v[lo] + SumRange(v, lo + 1, hi)

Abs(x) == IF x < 0 THEN -x ELSE x

\* number of entries with std::norm(S[i]) > threshold
num_of_SV(v, den, threshold) ==
  Cardinality({i \in DOMAIN v : v[i] > threshold * den})

\* new_SV_num after the test of max_bond_dimension
BadCapRank(svn, mbd) == svn

CapRank(svn, mbd) == IF mbd < svn THEN mbd ELSE svn

\* new_SV_num when the sweep stops at index i
BadSweepStop(i) == i

LowSweepStop(i) == i - 1

SweepStop(i) == i + 1

RECURSIVE Sweep(_, _, _, _, _, _)
\* the loop over i = new_SV_num - 1 down to 1: the value of new_SV_num
\* after it, from index i on with sum_squares = sum
Sweep(v, den, i, sum, nsv, thr) ==
  IF i > 0
    THEN IF sum + v[i] < thr * den
           THEN Sweep(v, den, i - 1, sum + v[i], nsv, thr)
           ELSE SweepStop(i)
    ELSE nsv

\* cmatrix_t::resize(rows, cols)
resize(M, r, c) == [rows |-> r, cols |-> c]

\* std::vector::resize(n)
vector_resize(v, n) == [i \in 0..(n - 1) |-> IF i \in DOMAIN v THEN v[i] ELSE 0]

\* V.resize: V is V dagger when mps_lapack
BadResizeV(M, nsv, ml) ==
  IF ml THEN resize(M, M.rows, nsv) ELSE resize(M, nsv, M.cols)

ResizeV(M, nsv, ml) ==
  IF ml THEN resize(M, nsv, M.cols) ELSE resize(M, M.rows, nsv)

\* what a read of v[i] can give: v[i], or, with i past the end of v, the
\* stale entry or other content of that memory (here 1.0)
ReadS(v, stale, den, i) ==
  IF i \in DOMAIN v THEN {v[i]} ELSE {stale[i], ONE * den}

RECURSIVE DiscardedValues(_, _, _, _, _)
\* the values the loop over i = new_SV_num .. SV_num - 1 can sum up, read
\* from the resized S
DiscardedValues(v, stale, den, i, svn) ==
  IF i >= svn THEN {0}
  ELSE {x + y : x \in ReadS(v, stale, den, i),
                y \in DiscardedValues(v, stale, den, i + 1, svn)}

\* Linalg::almost_equal(a, b, max_diff), a and b numerators over den
almost_equal(a, b, den, max_diff) == Abs(a - b) <= max_diff * den

\* the renormalization of S: [S, den] after it.  S[i] /= sqrt_sum divides
\* std::norm(S[i]) by new_sum_squares; the loop has no entry to divide when
\* S is empty, the only case with new_sum_squares = 0 for a non-increasing S
BadRenormalize(v, den) == [S |-> v, den |-> den]

Renormalize(v, den) ==
  LET new_sum_squares == SumRange(v, 0, size(v))
  IN IF ~almost_equal(ONE * den - new_sum_squares, 0, den, THRESHOLD)
        /\ new_sum_squares # 0
       THEN [S |-> [i \in DOMAIN v |-> v[i] * ONE], den |-> new_sum_squares]
       ELSE [S |-> v, den |-> den]

reduce_zeros(mbd, tt, ml) ==
  /\ rz_calls < MaxCalls
  /\ LET svn == num_of_SV(rz_S, rz_den, CHOP_THRESHOLD)
         capped == CapRank(svn, mbd)
         nsv == Sweep(rz_S, rz_den, capped - 1, 0, capped, tt)
         resized == vector_resize(rz_S, nsv)
         res == Renormalize(resized, rz_den)
     IN /\ SV_num' = svn
        /\ new_SV_num' = nsv
        /\ rz_U' = resize(rz_U, rz_U.rows, nsv)
        /\ rz_V' = ResizeV(rz_V, nsv, ml)
        /\ discarded_value' \in
             (IF nsv < svn THEN DiscardedValues(resized, rz_S, rz_den, nsv, svn)
                           ELSE {0})
        /\ oob_reads' = Cardinality({i \in nsv..(svn - 1) : i \notin DOMAIN resized})
        /\ rz_S' = res.S
        /\ rz_den' = res.den
  /\ rz_pc' = "returned"
  /\ rz_calls' = rz_calls + 1
  /\ max_bond_dimension' = mbd
  /\ truncation_threshold' = tt
  /\ mps_lapack' = ml
  /\ U_before' = rz_U
  /\ S_before' = rz_S
  /\ den_before' = rz_den
  /\ V_before' = rz_V

\* the singular values of an SVD: non-negative and non-increasing
SortedNorms(n) ==
  {v \in [0..(n - 1) -> 0..MaxNorm] : \A i \in 1..(n - 1) : v[i - 1] >= v[i]}

Min(a, b) == IF a < b THEN a ELSE b

\* the triple an SVD of an m x n matrix leaves: U is m x m, V is n x n and
\* S has min(m, n) entries
TruncInit ==
  /\ rz_pc = "ready"
  /\ rz_calls = 0
  /\ \E m \in 1..MaxDim, n \in 1..MaxDim :
       /\ rz_U = [rows |-> m, cols |-> m]
       /\ rz_V = [rows |-> n, cols |-> n]
       /\ rz_S \in SortedNorms(Min(m, n))
  /\ rz_den = 1
  /\ max_bond_dimension = 0
  /\ truncation_threshold = 0
  /\ mps_lapack = FALSE
  /\ SV_num = 0
  /\ new_SV_num = 0
  /\ discarded_value = 0
  /\ oob_reads = 0
  /\ U_before = rz_U
  /\ S_before = rz_S
  /\ den_before = 1
  /\ V_before = rz_V

\* reduce_zeros not in use
TruncIdle ==
  /\ rz_pc = "ready"
  /\ rz_calls = 0
  /\ rz_U = [rows |-> 0, cols |-> 0]
  /\ rz_V = [rows |-> 0, cols |-> 0]
  /\ rz_S = NoVector
  /\ rz_den = 1
  /\ max_bond_dimension = 0
  /\ truncation_threshold = 0
  /\ mps_lapack = FALSE
  /\ SV_num = 0
  /\ new_SV_num = 0
  /\ discarded_value = 0
  /\ oob_reads = 0
  /\ U_before = rz_U
  /\ S_before = rz_S
  /\ den_before = 1
  /\ V_before = rz_V

-----------------------------------------------------------------------------
(* csvd: the loop over k (diagonalization, sign test) and the sort *)

\* the values an entry of S can hold
Vals == (-MaxVal)..MaxVal

\* the while (true) loop for index k.  Its rotations write S at indices
\* l..k only, and it ends at the break that follows w = S[k]: any values in
\* S[0..k], the rest of S as it was
diagonalize(s) ==
  /\ csvd_pc = "chase"
  /\ \A i \in DOMAIN csvd_S : i > csvd_k => s[i] = csvd_S[i]
  /\ csvd_S' = s
  /\ csvd_w' = s[csvd_k]
  /\ csvd_pc' = "sign"
  /\ UNCHANGED <<csvd_n, csvd_k, csvd_status, csvd_Vneg>>

\* return FAILURE from the chase, which runs only with l < k; the rotations
\* before it have written S
diagonalize_fails(s) ==
  /\ csvd_pc = "chase"
  /\ csvd_k >= 1
  /\ \A i \in DOMAIN csvd_S : i > csvd_k => s[i] = csvd_S[i]
  /\ csvd_S' = s
  /\ csvd_pc' = "done"
  /\ csvd_status' = FAILURE
  /\ UNCHANGED <<csvd_n, csvd_k, csvd_w, csvd_Vneg>>

\* S after the test of w that ends the body of the loop over k
SignSwept(s, k, w) == IF w < -SIGN_TOL THEN [s EXCEPT ![k] = -w] ELSE s

\* the columns of V that test negates
SignSweptV(k, w) == IF w < -SIGN_TOL THEN {k} ELSE {}

sign_sweep ==
  /\ csvd_pc = "sign"
  /\ csvd_S' = SignSwept(csvd_S, csvd_k, csvd_w)
  /\ csvd_Vneg' = SignSweptV(csvd_k, csvd_w)
  /\ csvd_k' = csvd_k - 1
  /\ csvd_pc' = IF csvd_k - 1 >= 0 THEN "chase" ELSE "sort"
  /\ UNCHANGED <<csvd_n, csvd_w, csvd_status>>

RECURSIVE Largest(_, _, _, _, _)
\* the inner loop of the sort, from index i on: <<g, j>> after it
Largest(s, i, n, g, j) ==
  IF i < n
    THEN IF g < s[i] THEN Largest(s, i + 1, n, s[i], i)
                     ELSE Largest(s, i + 1, n, g, j)
    ELSE <<g, j>>

RECURSIVE Sorted(_, _, _)
\* the outer loop of the sort, from index k on: S after it
Sorted(s, k, n) ==
  IF k < n
    THEN LET gj == Largest(s, k, n, MINUS_ONE, k)
             g == gj[1]
             j == gj[2]
         IN Sorted(IF j # k THEN [s EXCEPT ![j] = s[k], ![k] = g] ELSE s,
                   k + 1, n)
    ELSE s

\* the sort; the back-accumulation after it leaves S alone, and csvd
\* returns SUCCESS
sort_and_return ==
  /\ csvd_pc = "sort"
  /\ csvd_S' = Sorted(csvd_S, 0, csvd_n)
  /\ csvd_pc' = "done"
  /\ csvd_status' = SUCCESS
  /\ UNCHANGED <<csvd_n, csvd_k, csvd_w, csvd_Vneg>>

\* csvd at the start of the loop over k: S[k] = b[k], a column norm
KernelInit ==
  /\ csvd_pc = "chase"
  /\ csvd_n \in 1..MaxKn
  /\ csvd_S \in [0..(csvd_n - 1) -> 0..MaxVal]
  /\ csvd_k = csvd_n - 1
  /\ csvd_w = 0
  /\ csvd_status = "running"
  /\ csvd_Vneg = {}

\* csvd not in use
KernelIdle ==
  /\ csvd_pc = "done"
  /\ csvd_n = 0
  /\ csvd_S = NoVector
  /\ csvd_k = 0
  /\ csvd_w = 0
  /\ csvd_status = "running"
  /\ csvd_Vneg = {}

-----------------------------------------------------------------------------
(* csvd: the while (true) loop for index k, step by step *)

\* eta * x on the grid: 0 for 0, and the smallest positive value otherwise
eta_times(x) == IF x = 0 THEN 0 ELSE 1

RECURSIVE MaxSum(_, _, _, _)
\* the loop that computes eps, from index k on: the largest S[k] + t[k]
MaxSum(s, t, k, mx) ==
  IF k < size(s)
    THEN MaxSum(s, t, k + 1, IF s[k] + t[k] > mx THEN s[k] + t[k] ELSE mx)
    ELSE mx

RECURSIVE Search(_, _, _, _)
\* the loop `for (l = k; l >= 0; l--)` from index l on: the values of l and
\* jump it can end with, and whether it read S[-1].  What S[-1] holds is not
\* defined: the read yields any value, below eps or not (none is below 0)
Search(s, t, eps, l) ==
  IF l < 0
    THEN {[l |-> -1, jump |-> FALSE, oob |-> FALSE]}
    ELSE IF Abs(t[l]) < eps
      THEN {[l |-> l, jump |-> TRUE, oob |-> FALSE]}
      ELSE IF l >= 1
        THEN IF Abs(s[l - 1]) < eps
               THEN {[l |-> l, jump |-> FALSE, oob |-> FALSE]}
               ELSE Search(s, t, eps, l - 1)
        ELSE {[l |-> -1, jump |-> FALSE, oob |-> TRUE]} \cup
             (IF eps > 0 THEN {[l |-> 0, jump |-> FALSE, oob |-> TRUE]}
                         ELSE {})

deflation_search ==
  /\ csvd_pc = "chase"
  /\ \E o \in Search(csvd_S, csvd_t, csvd_eps, csvd_k) :
       /\ csvd_l' = o.l
       /\ csvd_oob' = (csvd_oob \/ o.oob)
       /\ csvd_pc' = IF o.jump THEN "test" ELSE "cancel"
  /\ UNCHANGED <<csvd_n, csvd_S, csvd_k, csvd_w, csvd_status, csvd_Vneg,
                 csvd_t, csvd_eps>>

\* the indices of S and t within the vectors among l..k
Touched(l, k) == {i \in 0..k : i >= l}

\* The rotations compute their results in floating point from U, V, S and
\* t; the model lets a result be any value of one of the classes the code
\* tells apart: below -1e-13, negative within 1e-13 of 0, zero, positive
Computed == {-(SIGN_TOL + 1), -SIGN_TOL, 0, SIGN_TOL + 1}

\* the results of std::sqrt among them
ComputedRoot == {v \in Computed : v >= 0}

\* the vectors that hold values of W at the indices in I and agree with v
\* elsewhere
Written(v, I, W) ==
  {u \in [DOMAIN v -> W \cup {v[i] : i \in DOMAIN v}] :
     \A i \in DOMAIN v : i \notin I => u[i] = v[i]}

\* S after the loop `for (i = l; i <= k; i++)` of the block `if (!jump)`:
\* S[i] = sqrt(f * f + S[i] * S[i]) at the indices it reaches
Cancelled(s, l, k) ==
  {v \in Written(s, Touched(l, k), Computed) :
     \A i \in Touched(l, k) :
       v[i] = s[i] \/ (v[i] >= 0 /\ v[i] >= Abs(s[i]))}

\* t after that loop: t[i] = cs * t[i] with cs = 0 at i = l and |cs| <= 1
CancelledT(t, l, k) ==
  {v \in Written(t, Touched(l, k), Computed) :
     \A i \in Touched(l, k) :
       IF i = l THEN v[i] = 0 ELSE Abs(v[i]) <= Abs(t[i])}

\* the block `if (!jump)`; with l = -1 it reads t[-1] and S[-1]
cancellation ==
  /\ csvd_pc = "cancel"
  /\ csvd_S' \in Cancelled(csvd_S, csvd_l, csvd_k)
  /\ csvd_t' \in CancelledT(csvd_t, csvd_l, csvd_k)
  /\ csvd_oob' = (csvd_oob \/ csvd_l < 0)
  /\ csvd_pc' = "test"
  /\ UNCHANGED <<csvd_n, csvd_k, csvd_w, csvd_status, csvd_Vneg, csvd_eps,
                 csvd_l>>

\* w after `w = S[k];`
StaleW(s, k, w) == w

TestedW(s, k, w) == s[k]

\* w = S[k]; if (l == k) break;
test_convergence ==
  /\ csvd_pc = "test"
  /\ csvd_w' = TestedW(csvd_S, csvd_k, csvd_w)
  /\ csvd_pc' = IF csvd_l = csvd_k THEN "sign" ELSE "rotate"
  /\ UNCHANGED <<csvd_n, csvd_S, csvd_k, csvd_status, csvd_Vneg, loopVars>>

\* S after the chase: S[i - 1] = sqrt(h * h + f * f) for i = l + 1..k, then
\* S[k] = x
Chased(s, l, k) ==
  {v \in Written(s, Touched(l, k), Computed) :
     \A i \in Touched(l, k) : v[i] \in Computed /\ (i < k => v[i] >= 0)}

\* t after the chase: t[i - 1] = sqrt(h * h + f * f) for i = l + 1..k, then
\* t[l] = 0.0 and t[k] = f
ChasedT(t, l, k) ==
  {v \in Written(t, Touched(l, k), Computed) :
     \A i \in Touched(l, k) :
       /\ v[i] \in Computed
       /\ IF i = l THEN v[i] = 0 ELSE (i < k => v[i] >= 0)}

\* the chase, lines 383-489, with the underflow rescue or without; it uses
\* w as a scratch variable and leaves the last real(U(j, i)) in it.  With
\* l = -1 it reads S[-1]
rotate ==
  /\ csvd_pc = "rotate"
  /\ csvd_S' \in Chased(csvd_S, csvd_l, csvd_k)
  /\ csvd_t' \in ChasedT(csvd_t, csvd_l, csvd_k)
  /\ csvd_w' \in Computed
  /\ csvd_oob' = (csvd_oob \/ csvd_l < 0)
  /\ csvd_pc' = "chase"
  /\ UNCHANGED <<csvd_n, csvd_k, csvd_status, csvd_Vneg, csvd_eps, csvd_l>>

\* return FAILURE from the chase: w is 0 and tiny_w is false
rotate_fails ==
  /\ csvd_pc = "rotate"
  /\ csvd_S' \in Written(csvd_S, Touched(csvd_l, csvd_k - 1), ComputedRoot)
  /\ csvd_t' \in Written(csvd_t, Touched(csvd_l, csvd_k - 1), ComputedRoot)
  /\ csvd_w' = 0
  /\ csvd_oob' = (csvd_oob \/ csvd_l < 0)
  /\ csvd_pc' = "done"
  /\ csvd_status' = FAILURE
  /\ UNCHANGED <<csvd_n, csvd_k, csvd_Vneg, csvd_eps, csvd_l>>

\* the locals of the loop when it starts: t[k] = c[k] with c[0] = 0 and
\* c[k] a row norm, eps = eta * max(S[k] + t[k])
LoopInit ==
  /\ csvd_t \in {t \in [DOMAIN csvd_S -> 0..MaxVal] : t[0] = 0}
  /\ csvd_eps = eta_times(MaxSum(csvd_S, csvd_t, 0, 0))
  /\ csvd_l = 0
  /\ csvd_oob = FALSE

\* the loop not modelled step by step
LoopIdle ==
  /\ csvd_t = NoVector
  /\ csvd_eps = 0
  /\ csvd_l = 0
  /\ csvd_oob = FALSE

-----------------------------------------------------------------------------
(* Start of a csvd_wrapper call sequence *)

SvdInit ==
  /\ cuda \in BOOLEAN
  /\ pc = "idle"
  /\ lapack = FALSE
  /\ todo = <<>>
  /\ invoked = <<>>
  /\ A = Matrix(0, 0)
  /\ copied_A = Matrix(0, 0)
  /\ times = 0
  /\ current_status = SUCCESS
  /\ S = NoVector
  /\ A0 = Matrix(0, 0)
  /\ S0 = NoVector
  /\ attempt_A = Matrix(0, 0)
  /\ attempt_S = NoVector
  /\ kernel_calls = 0

\* csvd_wrapper not in use
SvdIdle ==
  /\ cuda = FALSE
  /\ pc = "idle"
  /\ lapack = FALSE
  /\ todo = <<>>
  /\ invoked = <<>>
  /\ A = Matrix(0, 0)
  /\ copied_A = Matrix(0, 0)
  /\ times = 0
  /\ current_status = SUCCESS
  /\ S = NoVector
  /\ A0 = Matrix(0, 0)
  /\ S0 = NoVector
  /\ attempt_A = Matrix(0, 0)
  /\ attempt_S = NoVector
  /\ kernel_calls = 0

-----------------------------------------------------------------------------
(* cutensor_csvd_wrapper, statement by statement *)

numRuns == 3

\* a statement that acquires resource r.  checked: it is wrapped in
\* HANDLE_ERROR / HANDLE_CUDA_ERROR; when: the condition it is under
Acquire(r, checked, when) ==
  [kind |-> "acquire", res |-> r, checked |-> checked, when |-> when]

\* a statement that releases resource r
Release(r, checked) ==
  [kind |-> "release", res |-> r, checked |-> checked, when |-> "always"]

\* a wrapped library call that neither acquires nor releases; out names the
\* local it assigns
Call(name, out) ==
  [kind |-> "call", res |-> name, checked |-> TRUE, when |-> out]

\* lines 723-865
GpuSetup ==
  << Call("cudaGetDevice", "none"),
     Call("cudaGetDeviceProperties", "none"),
     Acquire("T", FALSE, "always"),
     Acquire("U", FALSE, "always"),
     Acquire("S", FALSE, "always"),
     Acquire("V", FALSE, "always"),
     Acquire("D_T", TRUE, "always"),
     Acquire("D_U", TRUE, "always"),
     Acquire("D_S", TRUE, "always"),
     Acquire("D_V", TRUE, "always"),
     Call("cudaMemcpy", "none"),
     Acquire("stream", TRUE, "always"),
     Acquire("handle", TRUE, "always"),
     Acquire("descTensorIn", TRUE, "always"),
     Acquire("descTensorU", TRUE, "always"),
     Acquire("descTensorV", TRUE, "always"),
     Acquire("svdConfig", TRUE, "always"),
     Call("SetAttribute(ABS_CUTOFF)", "none"),
     Call("SetAttribute(REL_CUTOFF)", "none"),
     Call("SetAttribute(ALGO)", "none"),
     Call("SetAttribute(ALGO_PARAMS)", "none"),
     Acquire("svdInfo", TRUE, "always"),
     Acquire("workDesc", TRUE, "always"),
     Call("WorkspaceComputeSVDSizes", "none"),
     Call("WorkspaceGetMemorySize(DEVICE)", "deviceWorkspaceSize"),
     Call("WorkspaceGetMemorySize(HOST)", "hostWorkspaceSize"),
     Acquire("devWork", TRUE, "deviceWorkspaceSize"),
     Acquire("hostWork", FALSE, "hostWorkspaceSize"),
     Call("WorkspaceSetMemory(DEVICE)", "none"),
     Call("WorkspaceSetMemory(HOST)", "none") >>

\* one pass of the loop over numRuns, lines 875-895 (the unchecked
\* cudaMemsetAsync and cudaDeviceSynchronize hold nothing and cannot return)
GpuRun ==
  << Release("descTensorU", TRUE),
     Release("descTensorV", TRUE),
     Acquire("descTensorU", TRUE, "always"),
     Acquire("descTensorV", TRUE, "always"),
     Call("cutensornetTensorSVD", "none") >>

\* lines 900-937
GpuFinish ==
  << Call("cudaMemcpyAsync(U)", "none"),
     Call("cudaMemcpyAsync(S)", "none"),
     Call("cudaMemcpyAsync(V)", "none"),
     Call("GetAttribute(DISCARDED_WEIGHT)", "none"),
     Call("GetAttribute(REDUCED_EXTENT)", "none"),
     Call("GetAttribute(ALGO_STATUS)", "none"),
     Release("descTensorIn", TRUE),
     Release("descTensorU", TRUE),
     Release("descTensorV", TRUE),
     Release("svdConfig", TRUE),
     Release("svdInfo", TRUE),
     Release("workDesc", TRUE),
     Release("handle", TRUE),
     Release("T", FALSE),
     Release("U", FALSE),
     Release("S", FALSE),
     Release("V", FALSE),
     Release("D_T", FALSE),
     Release("D_U", FALSE),
     Release("D_S", FALSE),
     Release("D_V", FALSE),
     Release("devWork", FALSE),
     Release("hostWork", FALSE) >>

RECURSIVE Repeat(_, _)
Repeat(ops, n) == IF n = 0 THEN <<>> ELSE ops \o Repeat(ops, n - 1)

\* the statements of cutensor_csvd_wrapper in the order it runs them
GpuOps == GpuSetup \o Repeat(GpuRun, numRuns) \o GpuFinish

\* the condition `when` of a statement
Under(when) ==
  CASE when = "deviceWorkspaceSize" -> deviceWorkspaceSize > 0
    [] when = "hostWorkspaceSize" -> hostWorkspaceSize > 0
    [] OTHER -> TRUE

\* HANDLE_ERROR / HANDLE_CUDA_ERROR on an error: printf and return, from
\* where the statement stands
handle_error ==
  /\ gpu_pc' = "returned"
  /\ gpu_failed' = TRUE
  /\ UNCHANGED <<gpu_i, gpu_held>>

gpu_continue ==
  /\ gpu_i' = gpu_i + 1
  /\ UNCHANGED <<gpu_pc, gpu_failed>>

\* malloc, cudaMalloc, cudaStreamCreate, cutensornetCreate...: ok says
\* whether the resource was obtained.  A failed malloc leaves a null pointer
\* and the function goes on
gpu_acquire(ok) ==
  /\ gpu_pc = "running"
  /\ gpu_i <= Len(GpuOps)
  /\ LET op == GpuOps[gpu_i] IN
       /\ op.kind = "acquire"
       /\ IF ~Under(op.when)
            THEN gpu_continue /\ UNCHANGED gpu_held
            ELSE IF ok
              THEN gpu_continue /\ gpu_held' = gpu_held \cup {op.res}
              ELSE IF op.checked
                THEN handle_error
                ELSE gpu_continue /\ UNCHANGED gpu_held
  /\ UNCHANGED <<deviceWorkspaceSize, hostWorkspaceSize>>

\* a wrapped call; sz is the size WorkspaceGetMemorySize reports
gpu_call(ok, sz) ==
  /\ gpu_pc = "running"
  /\ gpu_i <= Len(GpuOps)
  /\ LET op == GpuOps[gpu_i] IN
       /\ op.kind = "call"
       /\ IF ok
            THEN /\ gpu_continue
                 /\ UNCHANGED gpu_held
                 /\ deviceWorkspaceSize' =
                      IF op.when = "deviceWorkspaceSize" THEN sz
                                                         ELSE deviceWorkspaceSize
                 /\ hostWorkspaceSize' =
                      IF op.when = "hostWorkspaceSize" THEN sz
                                                       ELSE hostWorkspaceSize
            ELSE /\ handle_error
                 /\ UNCHANGED <<deviceWorkspaceSize, hostWorkspaceSize>>

\* cutensornetDestroy... under HANDLE_ERROR, which can return; free and
\* cudaFree under `if (p)`, whose result is not looked at
gpu_release(ok) ==
  /\ gpu_pc = "running"
  /\ gpu_i <= Len(GpuOps)
  /\ LET op == GpuOps[gpu_i] IN
       /\ op.kind = "release"
       /\ IF ok \/ ~op.checked
            THEN gpu_continue /\ gpu_held' = gpu_held \ {op.res}
            ELSE handle_error
  /\ UNCHANGED <<deviceWorkspaceSize, hostWorkspaceSize>>

\* the closing brace of the function
gpu_return ==
  /\ gpu_pc = "running"
  /\ gpu_i = Len(GpuOps) + 1
  /\ gpu_pc' = "returned"
  /\ UNCHANGED <<gpu_i, gpu_held, gpu_failed, deviceWorkspaceSize,
                 hostWorkspaceSize>>

\* entry of cutensor_csvd_wrapper
GpuInit ==
  /\ gpu_pc = "running"
  /\ gpu_i = 1
  /\ gpu_held = {}
  /\ gpu_failed = FALSE
  /\ deviceWorkspaceSize = 0
  /\ hostWorkspaceSize = 0

\* cutensor_csvd_wrapper is not running
GpuIdle ==
  /\ gpu_pc = "idle"
  /\ gpu_i = 0
  /\ gpu_held = {}
  /\ gpu_failed = FALSE
  /\ deviceWorkspaceSize = 0
  /\ hostWorkspaceSize = 0

-----------------------------------------------------------------------------
(* Specifications *)

\* a step of one part leaves the variables of the other parts alone
SvdStep == UNCHANGED <<rzVars, csvdVars, loopVars, gpuVars>>

TruncStep == UNCHANGED <<svdVars, csvdVars, loopVars, gpuVars>>

KernelStep == UNCHANGED <<svdVars, rzVars, loopVars, gpuVars>>

LoopStep == UNCHANGED <<svdVars, rzVars, gpuVars>>

GpuStep == UNCHANGED <<svdVars, rzVars, csvdVars, loopVars>>

Init == SvdInit /\ TruncIdle /\ KernelIdle /\ LoopIdle /\ GpuIdle

Next ==
  \/ \E id \in 1..MaxMat, n \in 1..MaxN, l \in BOOLEAN :
       csvd_wrapper(id, n, l) /\ SvdStep
  \/ csvd_wrapper_return /\ SvdStep
  \/ \E st \in {SUCCESS, FAILURE}, s \in KernelVectors(size(S)) :
       qiskit_first(st, s) /\ SvdStep
  \/ \E st \in {SUCCESS, FAILURE}, s \in KernelVectors(size(S)) :
       qiskit_retry(st, s) /\ SvdStep
  \/ qiskit_exit /\ SvdStep
  \/ \E info \in {0, 1}, valid \in BOOLEAN, s \in KernelVectors(size(S)) :
       lapack_csvd_wrapper(info, valid, s) /\ SvdStep
  \/ cutensor_csvd_wrapper /\ SvdStep

Spec == Init /\ [][Next]_vars

InitTrunc == TruncInit /\ SvdIdle /\ KernelIdle /\ LoopIdle /\ GpuIdle

NextTrunc ==
  \E mbd \in 0..MaxDim, tt \in 0..MaxBudget, ml \in BOOLEAN :
    reduce_zeros(mbd, tt, ml) /\ TruncStep

SpecTrunc == InitTrunc /\ [][NextTrunc]_vars

InitKernel == KernelInit /\ LoopIdle /\ SvdIdle /\ TruncIdle /\ GpuIdle

NextKernel ==
  \/ \E s \in [DOMAIN csvd_S -> Vals] : diagonalize(s) /\ KernelStep
  \/ \E s \in [DOMAIN csvd_S -> Vals] : diagonalize_fails(s) /\ KernelStep
  \/ sign_sweep /\ KernelStep
  \/ sort_and_return /\ KernelStep

SpecKernel == InitKernel /\ [][NextKernel]_vars

InitLoop == KernelInit /\ LoopInit /\ SvdIdle /\ TruncIdle /\ GpuIdle

NextLoop ==
  \/ deflation_search /\ LoopStep
  \/ cancellation /\ LoopStep
  \/ test_convergence /\ LoopStep
  \/ rotate /\ LoopStep
  \/ rotate_fails /\ LoopStep
  \/ sign_sweep /\ KernelStep
  \/ sort_and_return /\ KernelStep

SpecLoop == InitLoop /\ [][NextLoop]_vars

InitGpu == GpuInit /\ SvdIdle /\ TruncIdle /\ KernelIdle /\ LoopIdle

NextGpu ==
  \/ \E ok \in BOOLEAN : gpu_acquire(ok) /\ GpuStep
  \/ \E ok \in BOOLEAN, sz \in {0, 1} : gpu_call(ok, sz) /\ GpuStep
  \/ \E ok \in BOOLEAN : gpu_release(ok) /\ GpuStep
  \/ gpu_return /\ GpuStep

SpecGpu == InitGpu /\ [][NextGpu]_vars

-----------------------------------------------------------------------------
(* Claims about qiskit_csvd_wrapper and csvd_wrapper, under Spec *)

\* qiskit_csvd_wrapper has ended, by a return or by a throw
QiskitFinished ==
  /\ invoked = <<"qiskit">>
  /\ \/ pc = "thrown"
     \/ pc \in {"body", "returned"} /\ todo = <<>>

\* C1: when the first csvd call and every retry returned FAILURE,
\* qiskit_csvd_wrapper throws and does not return normally.
C1_ExhaustedRetriesThrow ==
  (QiskitFinished /\ current_status = FAILURE) => pc = "thrown"

\* C2: for every k in 0..NUM_SVD_TRIES, when csvd first succeeds on retry k
\* (k = 0: on the first pass), qiskit_csvd_wrapper returns normally, the
\* successful attempt was given A0 * mul_factor^k, and the returned S is
\* that attempt's S with every entry divided by mul_factor^k.
C2_RetryUndoesScaling ==
  \A k \in 0..NUM_SVD_TRIES :
    (QiskitFinished /\ current_status = SUCCESS /\ times = k) =>
      /\ pc # "thrown"
      /\ attempt_A = Matrix(A0.id, A0.e + k)
      /\ DOMAIN S = DOMAIN attempt_S
      /\ \A i \in DOMAIN S :
           S[i] = [m |-> attempt_S[i].m, e |-> attempt_S[i].e - k]

\* the back-end the claim names for this build and this argument
Backend ==
  IF cuda THEN "cutensor" ELSE IF lapack THEN "lapack" ELSE "qiskit"

\* C9: each call of csvd_wrapper invokes exactly one back-end: the GPU
\* back-end when it is compiled in, whatever the argument; otherwise
\* lapack_csvd_wrapper when the argument is true and qiskit_csvd_wrapper
\* when it is false.
C9_ExactlyOneBackend ==
  /\ Len(invoked) <= 1
  /\ pc \in {"returned", "thrown"} => invoked = <<Backend>>

\* a call on a CUDA build with lapack = false has run the GPU back-end
C9_Witness ==
  pc = "returned" /\ cuda /\ ~lapack /\ invoked = <<"cutensor">>

\* C10: one call of qiskit_csvd_wrapper rescales A and calls csvd again at
\* most NUM_SVD_TRIES times, so csvd runs at most NUM_SVD_TRIES + 1 times.
C10_AtMostFifteenRetries ==
  /\ times <= NUM_SVD_TRIES
  /\ kernel_calls <= NUM_SVD_TRIES + 1

\* C12: when csvd_wrapper ends in an unrecoverable error (retries exhausted,
\* nonzero info, or reconstruction mismatch), the caller's S holds what it
\* held before the call
C12_NoPartialResults == pc = "thrown" => S = S0

-----------------------------------------------------------------------------
(* Claims about reduce_zeros, under SpecTrunc *)

Returned == rz_pc = "returned"

\* numerator of the sum of std::norm over the retained S
RetainedSum == SumRange(rz_S, 0, size(rz_S))

\* |1 - sum of S_i^2| <= THRESHOLD for the retained S
Normalized == Abs(ONE * rz_den - RetainedSum) <= THRESHOLD * rz_den

\* C3: after reduce_zeros the retained rank is at most max_bond_dimension
\* and at most num_of_SV of the original S.
C3_RankBound ==
  Returned =>
    /\ size(rz_S) <= max_bond_dimension
    /\ size(rz_S) <= num_of_SV(S_before, den_before, CHOP_THRESHOLD)

\* a call in which max_bond_dimension cut significant entries off
C3_Witness ==
  /\ Returned
  /\ max_bond_dimension >= 1
  /\ max_bond_dimension < num_of_SV(S_before, den_before, CHOP_THRESHOLD)
  /\ size(rz_S) = max_bond_dimension

\* C4 as stated: after reduce_zeros, for every S, max_bond_dimension and
\* truncation_threshold, the retained S has |1 - sum S_i^2| <= THRESHOLD.
C4_AlwaysNormalized == Returned => Normalized

\* C4, amended: after reduce_zeros the retained S has
\* |1 - sum S_i^2| <= THRESHOLD whenever the entries it retains did not
\* all have squared magnitude zero (so at least one entry is retained).
C4_NormalizedWhenNonzero ==
  (Returned /\ SumRange(S_before, 0, size(rz_S)) > 0) => Normalized

\* a call that dropped entries and then renormalized the rest
C4_Witness ==
  /\ Returned
  /\ size(rz_S) >= 1
  /\ size(rz_S) < size(S_before)
  /\ rz_den # den_before
  /\ Normalized

\* C5: the value reduce_zeros returns is the sum of S_i^2 over every index
\* i >= new rank of the original S, read from entries within the bounds of
\* the vector.
C5_DiscardedIsDroppedMass ==
  Returned =>
    /\ discarded_value = SumRange(S_before, size(rz_S), size(S_before))
    /\ oob_reads = 0

\* C6: after reduce_zeros with new rank r, S has r entries, U has r columns
\* and its rows unchanged, V has r rows (columns unchanged) when mps_lapack
\* and r columns (rows unchanged) otherwise; no dimension has grown.
C6_ShapesAfterTruncation ==
  Returned =>
    /\ size(rz_S) = new_SV_num
    /\ rz_U = [rows |-> U_before.rows, cols |-> new_SV_num]
    /\ mps_lapack => rz_V = [rows |-> new_SV_num, cols |-> V_before.cols]
    /\ ~mps_lapack => rz_V = [rows |-> V_before.rows, cols |-> new_SV_num]
    /\ size(rz_S) <= size(S_before)
    /\ rz_U.rows <= U_before.rows /\ rz_U.cols <= U_before.cols
    /\ rz_V.rows <= V_before.rows /\ rz_V.cols <= V_before.cols

\* a call with mps_lapack that cut rows off V and left its columns
C6_Witness ==
  /\ Returned
  /\ mps_lapack
  /\ new_SV_num >= 1
  /\ new_SV_num < V_before.rows
  /\ rz_V = [rows |-> new_SV_num, cols |-> V_before.cols]
  /\ rz_V.cols > new_SV_num

\* the retained entries are those of the original S, or those divided by
\* the square root of their sum of squares
RetainedUpToRenormalization ==
  /\ DOMAIN rz_S \subseteq DOMAIN S_before
  /\ LET s2 == SumRange(S_before, 0, size(rz_S))
     IN \/ \A i \in DOMAIN rz_S : rz_S[i] * den_before = S_before[i] * rz_den
        \/ \A i \in DOMAIN rz_S : rz_S[i] * s2 = S_before[i] * ONE * rz_den

\* the call of the claim: max_bond_dimension >= len(S), budget 0
FullRankNoBudget ==
  /\ Returned
  /\ max_bond_dimension >= size(S_before)
  /\ truncation_threshold = 0

\* the dimension of V that holds the rank
RankDim(M) == IF mps_lapack THEN M.rows ELSE M.cols

\* C8 as stated: reduce_zeros with max_bond_dimension >= len(S) and
\* truncation_threshold = 0 drops nothing: len(S) and the shapes of U and V
\* are unchanged, and S changes at most by the renormalization.
C8_NothingDropped ==
  FullRankNoBudget =>
    /\ size(rz_S) = size(S_before)
    /\ rz_U = U_before
    /\ rz_V = V_before
    /\ RetainedUpToRenormalization

\* C8, amended: reduce_zeros with max_bond_dimension >= len(S) and
\* truncation_threshold = 0 cuts S, the columns of U and the rank dimension
\* of V to num_of_SV(S, CHOP_THRESHOLD) and changes the retained entries at
\* most by the renormalization; len(S) and the shapes of U and V are
\* unchanged when every entry of S is significant and U's columns and V's
\* rank dimension already number len(S).
C8_DropsOnlyInsignificant ==
  FullRankNoBudget =>
    LET r == num_of_SV(S_before, den_before, CHOP_THRESHOLD)
    IN /\ size(rz_S) = r
       /\ rz_U = [rows |-> U_before.rows, cols |-> r]
       /\ RankDim(rz_V) = r
       /\ mps_lapack => rz_V.cols = V_before.cols
       /\ ~mps_lapack => rz_V.rows = V_before.rows
       /\ RetainedUpToRenormalization
       /\ (r = size(S_before) /\ U_before.cols = r /\ RankDim(V_before) = r)
            => (rz_U = U_before /\ rz_V = V_before
                /\ size(rz_S) = size(S_before))

\* such a call on a triple of full significant rank: nothing is dropped,
\* and S is renormalized
C8_Witness ==
  /\ FullRankNoBudget
  /\ size(S_before) >= 2
  /\ size(rz_S) = size(S_before)
  /\ rz_U = U_before
  /\ rz_V = V_before
  /\ rz_den # den_before

\* n1 = min(num_significant(S), max_rank) of the latest call
CappedRank ==
  CapRank(num_of_SV(S_before, den_before, CHOP_THRESHOLD), max_bond_dimension)

\* the sum of S_j^2 over r <= j < n1 is strictly below truncation_threshold
UnderBudget(r) ==
  SumRange(S_before, r, CappedRank) < truncation_threshold * den_before

\* C13: with n1 = min(num_significant(S), max_rank) >= 1, the new rank is the
\* smallest r in 1..n1 such that the sum of S_j^2 over r <= j < n1 is
\* strictly below truncation_threshold; if every index n1-1 down to 1 is
\* accepted the new rank is 1.
C13_SweepDropsAccepted ==
  (Returned /\ CappedRank >= 1) =>
    /\ new_SV_num \in 1..CappedRank
    /\ UnderBudget(new_SV_num)
    /\ \A r \in 1..(new_SV_num - 1) : ~UnderBudget(r)

\* the retained S[0] is the original S[0], or that divided by the square
\* root of the retained sum of squares
LeadingEntryKept ==
  /\ 0 \in DOMAIN rz_S
  /\ LET s2 == SumRange(S_before, 0, size(rz_S))
     IN \/ rz_S[0] * den_before = S_before[0] * rz_den
        \/ rz_S[0] * s2 = S_before[0] * ONE * rz_den

\* C14 as stated: for every non-empty S, every max_bond_dimension and every
\* truncation_threshold, reduce_zeros retains at least one entry and the
\* retained S[0] is the original leading entry, up to renormalization.
C14_NeverDropsIndexZero ==
  (Returned /\ size(S_before) >= 1) =>
    /\ size(rz_S) >= 1
    /\ LeadingEntryKept

\* C14, amended: when min(num_of_SV(S), max_bond_dimension) >= 1,
\* reduce_zeros retains at least one entry and the retained S[0] is the
\* original leading entry, up to renormalization.
C14_KeepsLeadingEntry ==
  (Returned /\ CappedRank >= 1) =>
    /\ size(rz_S) >= 1
    /\ LeadingEntryKept

\* a call whose sweep stopped at index 1, the lowest index it visits, and
\* dropped the entries above it
C14_Witness ==
  /\ Returned
  /\ CappedRank >= 3
  /\ new_SV_num = 2
  /\ LeadingEntryKept

-----------------------------------------------------------------------------
(* Claims about csvd, under SpecKernel *)

\* C7: when csvd returns SUCCESS, S is non-increasing and every entry is
\* non-negative, whatever values the diagonalization left in S.
C7_SortedNonNegative ==
  (csvd_pc = "done" /\ csvd_status = SUCCESS) =>
    /\ \A i \in 1..(csvd_n - 1) : csvd_S[i - 1] >= csvd_S[i]
    /\ \A i \in DOMAIN csvd_S : csvd_S[i] >= 0

-----------------------------------------------------------------------------
(* Claims about the while (true) loop of csvd, under SpecLoop *)

\* C15: for every input, the all-zero matrix (eps = 0) included, each
\* deflation search for index k ends with l in 0..k, and no read of S or t
\* uses an index outside 0..n-1 (S[l - 1] is never read with l = 0).
C15_DeflationInRange ==
  /\ csvd_pc \in {"cancel", "test"} => csvd_l \in 0..csvd_k
  /\ ~csvd_oob

\* C16: when the loop for index k has ended, the w that the sign test reads
\* equals the current S[k]; if S[k] < -1e-13 the test replaces S[k] by its
\* negation and negates column k of V, otherwise it leaves S and V alone.
C16_SignSweepOnCurrentS ==
  [][csvd_pc = "sign" =>
       /\ csvd_w = csvd_S[csvd_k]
       /\ IF csvd_S[csvd_k] < -SIGN_TOL
            THEN /\ csvd_S' = [csvd_S EXCEPT ![csvd_k] = -csvd_S[csvd_k]]
                 /\ csvd_Vneg' = {csvd_k}
            ELSE /\ csvd_S' = csvd_S
                 /\ csvd_Vneg' = {}]_vars

\* the sign test has just negated S[k] and column k of V; a negative S[k]
\* can only come from the chase (S[k] = x), which left another value in w
C16_Witness ==
  /\ csvd_pc = "chase"
  /\ csvd_Vneg = {csvd_k + 1}
  /\ csvd_S[csvd_k + 1] > SIGN_TOL
  /\ csvd_w = -csvd_S[csvd_k + 1]

-----------------------------------------------------------------------------
(* Claims about cutensor_csvd_wrapper, under SpecGpu *)

\* C11: when cutensor_csvd_wrapper returns, on the normal path or from an
\* early return on an error, every resource it acquired (host buffers,
\* device buffers, stream, library handle, tensor descriptors, SVD config,
\* SVD info, workspace descriptor, workspace memory) has been released
C11_AllReleasedAtReturn == gpu_pc = "returned" => gpu_held = {}

=============================================================================
